---- MODULE Spec2Model ----
(***************************************************************************)
(* The seed routine of nextjs-dashboard/scripts/seed.js as a state         *)
(* machine: main() opens one connection, runs seedUsers, seedCustomers,    *)
(* seedInvoices and seedRevenue in that order and ends the connection.     *)
(* Each seed function issues its DDL, maps its fixture batch to INSERT ... *)
(* ON CONFLICT DO NOTHING statements and awaits them with Promise.all.     *)
(*                                                                         *)
(* The database, the connection and bcrypt are libraries: a statement in   *)
(* flight settles in its own step, in any order among the statements in    *)
(* flight, and may fail (connection loss); bcrypt.hash may fail too.       *)
(* A promise's settlement and the continuations it wakes (Promise.all's    *)
(* reaction, the seed function's catch block, main's rejection handler)    *)
(* are microtasks of one event-loop turn, so they form one step.           *)
(***************************************************************************)
EXTENDS Integers, Sequences, FiniteSets, TLC

\* Bounds of the model.
MaxRuns == 2
MaxBatch == 2
MaxRequests == 2

\* bcrypt.hash(user.password, 10)
SaltRounds == 10

\* (the order in which the file declares the four functions)
OrderAsDeclared == <<"users", "invoices", "customers", "revenue">>
\* The order of the four awaits in main.
Order == <<"users", "customers", "invoices", "revenue">>

Tables == {"users", "customers", "invoices", "revenue"}

\* The three Suspense boundaries of the dashboard page.
Boundaries == {"CardWrapper", "RevenueChart", "LatestInvoices"}

Months == <<"Jan", "Feb", "Mar", "Apr", "May", "Jun">>

-----------------------------------------------------------------------------
\* Fixture data (placeholder-data.js is required by the script; its records
\* have these fields, read by the four INSERT statements).

UserAt(i) ==
  [id |-> "u" \o ToString(i),
   name |-> IF i = 1 THEN "Ann" ELSE "user" \o ToString(i),
   email |-> IF i = 1 THEN "ann@x.com" ELSE "e" \o ToString(i) \o "@x.com",
   password |-> IF i = 1 THEN "plain" ELSE "plain" \o ToString(i)]

CustomerAt(i) ==
  [id |-> "c" \o ToString(i),
   name |-> "customer" \o ToString(i),
   email |-> "c" \o ToString(i) \o "@x.com",
   image_url |-> "/customers/" \o ToString(i) \o ".png"]

InvoiceAt(i) ==
  [customer_id |-> "c" \o ToString(i),
   amount |-> 1000 * i,
   status |-> IF i % 2 = 1 THEN "pending" ELSE "paid",
   date |-> "2023-01-0" \o ToString(i)]

RevenueAt(i) == [month |-> Months[i], revenue |-> 100 * i]

\* A fixture whose keys are pairwise distinct, n records per table.
PlainFixture(n) ==
  [users |-> [i \in 1..n |-> UserAt(i)],
   customers |-> [i \in 1..n |-> CustomerAt(i)],
   invoices |-> [i \in 1..n |-> InvoiceAt(i)],
   revenue |-> [i \in 1..n |-> RevenueAt(i)]]

\* Fixtures in which the last record of one table repeats a key of the
\* first record (with other field values), or an invoice names a customer
\* that is not in the customers fixture.
DupUserId(n) ==
  [PlainFixture(n) EXCEPT !.users[n].id = "u1"]
DupUserEmail(n) ==
  [PlainFixture(n) EXCEPT !.users[n].email = "ann@x.com"]
DupCustomerId(n) ==
  [PlainFixture(n) EXCEPT !.customers[n].id = "c1"]
DupRevenueMonth(n) ==
  [PlainFixture(n) EXCEPT !.revenue[n].month = "Jan"]
DanglingInvoice(n) ==
  [PlainFixture(n) EXCEPT !.invoices[n].customer_id = "c0"]

Fixtures ==
  {PlainFixture(n) : n \in 1..MaxBatch}
    \cup {DupUserId(n) : n \in 2..MaxBatch}
    \cup {DupUserEmail(n) : n \in 2..MaxBatch}
    \cup {DupCustomerId(n) : n \in 2..MaxBatch}
    \cup {DupRevenueMonth(n) : n \in 2..MaxBatch}
    \cup {DanglingInvoice(n) : n \in 1..MaxBatch}

-----------------------------------------------------------------------------
VARIABLES
  fixture,     \* the records of placeholder-data.js
  db,          \* the rows of the four tables
  schema,      \* the extension and the tables that exist
  run,         \* the number of the current run of the script
  pc,          \* where main is
  phaseState,  \* where each seed function is
  ops,         \* per table, the state of each record's hash and insert
  hashed,      \* hashedPassword of each user record, once computed
  conn,        \* the connection: "none", "open", "closed"
  ends,        \* calls of client.end() in this run
  errlog,      \* what console.error has written in this run
  ddlError,    \* per phase, the error its DDL was rejected with, if any
  dbStart,     \* the rows of the four tables when this run started
  prevCounts,  \* the row counts the previous run left, if it ended done
  requests,    \* the requests of /dashboard served so far
  pagePc,      \* where Page() is for the current request
  boundary     \* what each Suspense boundary of the page shows

vars == <<fixture, db, schema, run, pc, phaseState, ops, hashed, conn, ends,
          errlog, ddlError, dbStart, prevCounts, requests, pagePc, boundary>>

\* The state of the seed script and the state of the dashboard page.
seedVars == <<fixture, db, schema, run, pc, phaseState, ops, hashed, conn,
              ends, errlog, ddlError, dbStart, prevCounts>>
pageVars == <<requests, pagePc, boundary>>

NoHash == ""

-----------------------------------------------------------------------------
\* bcrypt, by what it does: the stored string names the algorithm, the cost
\* and the salt and holds a digest of the plaintext under that salt.

\* bcrypt.hash draws a random salt at each call. The program never looks
\* into a salt, so the salt is named after the call that drew it (the run
\* and the record).
GenSalt(r, i) == "salt-" \o ToString(r) \o "-" \o ToString(i)
Salts == {GenSalt(r, i) : r \in 1..MaxRuns, i \in 1..MaxBatch}

Digest(plain, rounds, salt) ==
  "H(" \o plain \o "," \o ToString(rounds) \o "," \o salt \o ")"

BcryptHash(plain, rounds, salt) ==
  "$2b$" \o ToString(rounds) \o "$" \o salt \o "$" \o Digest(plain, rounds, salt)

\* bcrypt.compare: recompute under the salt and cost the hash names. The
\* hashes of the fixture's plaintexts are tabulated once.
Plaintexts == {UserAt(i).password : i \in 1..MaxBatch}
HashesOf ==
  [p \in Plaintexts |->
     {BcryptHash(p, r, s) : r \in {4, SaltRounds, 12}, s \in Salts}]
BcryptCompare(plain, stored) ==
  IF plain \in Plaintexts THEN stored \in HashesOf[plain]
  ELSE \E s \in Salts : \E r \in {4, SaltRounds, 12} :
         stored = BcryptHash(plain, r, s)

HashedPasswordPlain(user, salt) == user.password
\* const hashedPassword = await bcrypt.hash(user.password, 10);
HashedPassword(user, salt) == BcryptHash(user.password, SaltRounds, salt)

-----------------------------------------------------------------------------
\* The database.

EmptyDb == [t \in Tables |-> {}]

\* The column of the ON CONFLICT clause of each INSERT.
ConflictTarget(t) == IF t = "revenue" THEN "month" ELSE "id"

\* id UUID DEFAULT uuid_generate_v4(): a value no other call returns. The
\* program never looks into a generated id, so the value is named after
\* the insert that drew it (the run and the record).
UuidGenerateV4(i) == "uuid-" \o ToString(run) \o "-" \o ToString(i)

\* (the INSERT of customers leaving the id to the column default, as the
\* INSERT of invoices does)
RowOfCustomersDefaultId(t, i) ==
  LET r == fixture[t][i] IN
  CASE t = "users" ->
         [id |-> r.id, name |-> r.name, email |-> r.email,
          password |-> hashed[i]]
    [] t = "customers" ->
         [id |-> UuidGenerateV4(i), name |-> r.name, email |-> r.email,
          image_url |-> r.image_url]
    [] t = "invoices" ->
         [id |-> UuidGenerateV4(i), customer_id |-> r.customer_id,
          amount |-> r.amount, status |-> r.status, date |-> r.date]
    [] t = "revenue" ->
         [month |-> r.month, revenue |-> r.revenue]

\* The row an INSERT statement offers: invoices are inserted without id
\* and take the column default.
RowOf(t, i) ==
  LET r == fixture[t][i] IN
  CASE t = "users" ->
         [id |-> r.id, name |-> r.name, email |-> r.email,
          password |-> hashed[i]]
    [] t = "customers" ->
         [id |-> r.id, name |-> r.name, email |-> r.email,
          image_url |-> r.image_url]
    [] t = "invoices" ->
         [id |-> UuidGenerateV4(i), customer_id |-> r.customer_id,
          amount |-> r.amount, status |-> r.status, date |-> r.date]
    [] t = "revenue" ->
         [month |-> r.month, revenue |-> r.revenue]

ArbiterConflictNever(t, row, rows) == FALSE
ArbiterConflictAnyRow(t, row, rows) == rows # {}
\* ON CONFLICT (id) / ON CONFLICT (month): a row with that key exists.
ArbiterConflict(t, row, rows) ==
  \E x \in rows : x[ConflictTarget(t)] = row[ConflictTarget(t)]

\* The unique constraints the ON CONFLICT clause does not name:
\* users.email (email TEXT NOT NULL UNIQUE).
UniqueViolation(t, row, rows) ==
  t = "users" /\ \E x \in rows : x.email = row.email

\* (the INSERT into an invoices table whose customer_id REFERENCES
\* customers (id))
InsertResultForeignKey(t, row, rows) ==
  IF t = "invoices" /\ ~(\E c \in db["customers"] : c.id = row.customer_id)
    THEN "foreign_key_violation"
  ELSE IF ArbiterConflict(t, row, rows) THEN "skipped"
  ELSE IF UniqueViolation(t, row, rows) THEN "unique_violation"
  ELSE "inserted"
\* What INSERT ... ON CONFLICT (...) DO NOTHING does to a table.
InsertResult(t, row, rows) ==
  IF ArbiterConflict(t, row, rows) THEN "skipped"
  ELSE IF UniqueViolation(t, row, rows) THEN "unique_violation"
  ELSE "inserted"

\* (an INSERT without its ON CONFLICT clause on a table without its key)
InsertRowsAlways(t, row, rows) == rows \cup {row}
\* (INSERT ... ON CONFLICT (...) DO UPDATE: the offered row replaces the
\* row it conflicts with)
InsertRowsUpsert(t, row, rows) ==
  IF UniqueViolation(t, row, rows) /\ ~ArbiterConflict(t, row, rows)
    THEN rows
    ELSE {x \in rows : ~ArbiterConflict(t, row, {x})} \cup {row}
InsertRows(t, row, rows) ==
  IF InsertResult(t, row, rows) = "inserted" THEN rows \cup {row} ELSE rows

\* (CREATE EXTENSION / CREATE TABLE without IF NOT EXISTS)
CreateResultIfExistsFails(obj, sch) ==
  IF obj \in sch THEN "duplicate_object" ELSE "ok"
\* The answer to CREATE EXTENSION IF NOT EXISTS / CREATE TABLE IF NOT
\* EXISTS for obj when the objects sch exist: ok, whether obj exists or not.
CreateResult(obj, sch) == "ok"

Counts(d) == [t \in Tables |-> Cardinality(d[t])]
NoCounts == [t \in Tables |-> 0 - 1]

-----------------------------------------------------------------------------
\* Promise.all over the batch's promises.

Fulfilled == {"inserted", "skipped"}
Rejected == {"hash_error", "unique_violation", "conn_error"}

PromiseAllSettled(o) ==
  IF \A i \in DOMAIN o : o[i] \in Fulfilled \cup Rejected THEN "fulfilled"
  ELSE "pending"
PromiseAny(o) ==
  IF \E i \in DOMAIN o : o[i] \in Fulfilled THEN "fulfilled"
  ELSE IF \A i \in DOMAIN o : o[i] \in Rejected THEN "rejected"
  ELSE "pending"
\* (an await that a rejection never wakes)
PromiseAllNeverRejects(o) ==
  IF \A i \in DOMAIN o : o[i] \in Fulfilled THEN "fulfilled" ELSE "pending"
PromiseAll(o) ==
  IF \E i \in DOMAIN o : o[i] \in Rejected THEN "rejected"
  ELSE IF \A i \in DOMAIN o : o[i] \in Fulfilled THEN "fulfilled"
  ELSE "pending"

-----------------------------------------------------------------------------
\* Control flow of main and the seed functions.

Pos(t) == CHOOSE k \in 1..Len(Order) : Order[k] = t

\* seedRevenue starts with CREATE TABLE, the others with CREATE EXTENSION.
FirstStep(t) == IF t = "revenue" THEN "table" ELSE "ext"

ProcessError == "An error occurred while attempting to seed the database:"
PhaseError(t) == "Error seeding " \o t \o ":"

\* The seed function of t returns; main goes on to the next await.
PhaseReturn(t) ==
  /\ IF Pos(t) < Len(Order)
       THEN /\ phaseState' =
                 [phaseState EXCEPT ![t] = "returned",
                                    ![Order[Pos(t) + 1]] =
                                        FirstStep(Order[Pos(t) + 1])]
            /\ UNCHANGED <<pc, ends>>
       ELSE /\ phaseState' = [phaseState EXCEPT ![t] = "returned"]
            /\ pc' = "closing"
            /\ ends' = ends + 1
  /\ UNCHANGED errlog

\* (a catch block that logs and does not rethrow)
PhaseSwallow(t) ==
  /\ IF Pos(t) < Len(Order)
       THEN /\ phaseState' =
                 [phaseState EXCEPT ![t] = "thrown",
                                    ![Order[Pos(t) + 1]] =
                                        FirstStep(Order[Pos(t) + 1])]
            /\ UNCHANGED <<pc, ends>>
       ELSE /\ phaseState' = [phaseState EXCEPT ![t] = "thrown"]
            /\ pc' = "closing"
            /\ ends' = ends + 1
  /\ errlog' = Append(errlog, PhaseError(t))

\* The catch block of the seed function of t logs and rethrows; main's
\* promise rejects and the handler of main().catch logs.
PhaseThrow(t) ==
  /\ phaseState' = [phaseState EXCEPT ![t] = "thrown"]
  /\ errlog' = errlog \o <<PhaseError(t), ProcessError>>
  /\ pc' = "failed"
  /\ UNCHANGED ends

\* What the await of Promise.all does once the batch's promises are o.
AwaitBatch(t, o) ==
  IF phaseState[t] = "batch" /\ PromiseAll(o) = "rejected" THEN PhaseThrow(t)
  ELSE IF phaseState[t] = "batch" /\ PromiseAll(o) = "fulfilled"
    THEN PhaseReturn(t)
  ELSE UNCHANGED <<phaseState, pc, ends, errlog>>

-----------------------------------------------------------------------------
Init ==
  /\ fixture \in Fixtures
  /\ db = EmptyDb
  /\ schema = {}
  /\ run = 1
  /\ pc = "idle"
  /\ phaseState = [t \in Tables |-> "notStarted"]
  /\ ops = [t \in Tables |-> <<>>]
  /\ hashed = <<>>
  /\ conn = "none"
  /\ ends = 0
  /\ errlog = <<>>
  /\ ddlError = [t \in Tables |-> ""]
  /\ dbStart = EmptyDb
  /\ prevCounts = NoCounts
  /\ requests = 0
  /\ pagePc = "idle"
  /\ boundary = [b \in Boundaries |-> "none"]

\* main(): db.connect() is called.
Start ==
  /\ pc = "idle"
  /\ pc' = "connecting"
  /\ UNCHANGED <<fixture, db, schema, run, phaseState, ops, hashed, conn,
                 ends, errlog, ddlError, dbStart, prevCounts>>
  /\ UNCHANGED pageVars

\* db.connect() settles; on success main calls the first seed function.
ConnectSettle(ok) ==
  /\ pc = "connecting"
  /\ IF ok
       THEN /\ conn' = "open"
            /\ pc' = "seeding"
            /\ phaseState' =
                 [phaseState EXCEPT ![Order[1]] = FirstStep(Order[1])]
            /\ UNCHANGED errlog
       ELSE /\ pc' = "failed"
            /\ errlog' = Append(errlog, ProcessError)
            /\ UNCHANGED <<conn, phaseState>>
  /\ UNCHANGED <<fixture, db, schema, run, ops, hashed, ends,
                 ddlError, dbStart, prevCounts>>
  /\ UNCHANGED pageVars

\* CREATE EXTENSION IF NOT EXISTS "uuid-ossp" settles.
CreateExtensionSettle(t, ok) ==
  LET res == IF ok THEN CreateResult("uuid-ossp", schema) ELSE "conn_error" IN
  /\ phaseState[t] = "ext"
  /\ IF res = "ok"
       THEN /\ schema' = schema \cup {"uuid-ossp"}
            /\ phaseState' = [phaseState EXCEPT ![t] = "table"]
            /\ UNCHANGED <<pc, ends, errlog, ddlError>>
       ELSE /\ PhaseThrow(t)
            /\ ddlError' = [ddlError EXCEPT ![t] = res]
            /\ UNCHANGED schema
  /\ UNCHANGED <<fixture, db, run, ops, hashed, conn, dbStart,
                 prevCounts>>
  /\ UNCHANGED pageVars

\* CREATE TABLE IF NOT EXISTS settles; on success the batch is mapped:
\* seedUsers starts a hash per user, the others dispatch their inserts.
CreateTableSettle(t, ok) ==
  LET res == IF ok THEN CreateResult(t, schema) ELSE "conn_error" IN
  /\ phaseState[t] = "table"
  /\ IF res = "ok"
       THEN /\ schema' = schema \cup {t}
            /\ phaseState' = [phaseState EXCEPT ![t] = "batch"]
            /\ ops' = [ops EXCEPT ![t] =
                         [i \in 1..Len(fixture[t]) |->
                            IF t = "users" THEN "hashing" ELSE "inflight"]]
            /\ hashed' = IF t = "users"
                           THEN [i \in 1..Len(fixture[t]) |-> NoHash]
                           ELSE hashed
            /\ UNCHANGED <<pc, ends, errlog, ddlError>>
       ELSE /\ PhaseThrow(t)
            /\ ddlError' = [ddlError EXCEPT ![t] = res]
            /\ UNCHANGED <<schema, ops, hashed>>
  /\ UNCHANGED <<fixture, db, run, conn, dbStart, prevCounts>>
  /\ UNCHANGED pageVars

\* (a callback that catches the rejection of bcrypt.hash and sends its
\* INSERT all the same)
AfterHashInsertAnyway(ok) == "inflight"
\* Where the callback of users.map is once await bcrypt.hash has settled:
\* at its INSERT, or rejected with the error of the hash.
AfterHash(ok) == IF ok THEN "inflight" ELSE "hash_error"

\* bcrypt.hash of user i settles; on success the user's insert is sent.
HashSettle(i, ok) ==
  /\ i \in DOMAIN ops["users"]
  /\ ops["users"][i] = "hashing"
  /\ hashed' = IF ok
                 THEN [hashed EXCEPT ![i] =
                         HashedPassword(fixture["users"][i], GenSalt(run, i))]
                 ELSE hashed
  /\ ops' = [ops EXCEPT !["users"][i] = AfterHash(ok)]
  /\ AwaitBatch("users", ops'["users"])
  /\ UNCHANGED <<fixture, db, schema, run, conn, ddlError, dbStart,
                 prevCounts>>
  /\ UNCHANGED pageVars

\* The insert of record i of table t settles.
InsertSettle(t, i, ok) ==
  /\ i \in DOMAIN ops[t]
  /\ ops[t][i] = "inflight"
  /\ conn = "open"
  /\ IF ok
       THEN /\ ops' = [ops EXCEPT ![t][i] =
                         InsertResult(t, RowOf(t, i), db[t])]
            /\ db' = [db EXCEPT ![t] = InsertRows(t, RowOf(t, i), db[t])]
       ELSE /\ ops' = [ops EXCEPT ![t][i] = "conn_error"]
            /\ UNCHANGED db
  /\ AwaitBatch(t, ops'[t])
  /\ UNCHANGED <<fixture, schema, run, hashed, conn, ddlError, dbStart,
                 prevCounts>>
  /\ UNCHANGED pageVars

\* client.end() settles.
EndSettle(ok) ==
  /\ pc = "closing"
  /\ IF ok
       THEN /\ conn' = "closed"
            /\ pc' = "done"
            /\ UNCHANGED errlog
       ELSE /\ pc' = "failed"
            /\ errlog' = Append(errlog, ProcessError)
            /\ UNCHANGED conn
  /\ UNCHANGED <<fixture, db, schema, run, phaseState, ops, hashed, ends,
                 ddlError, dbStart, prevCounts>>
  /\ UNCHANGED pageVars

\* The process is over (what was still in flight is lost with it) and the
\* script is run again on the same database.
NextRun ==
  /\ pc \in {"done", "failed"}
  /\ run < MaxRuns
  /\ run' = run + 1
  /\ pc' = "idle"
  /\ phaseState' = [t \in Tables |-> "notStarted"]
  /\ ops' = [t \in Tables |-> <<>>]
  /\ hashed' = <<>>
  /\ conn' = "none"
  /\ ends' = 0
  /\ errlog' = <<>>
  /\ ddlError' = [t \in Tables |-> ""]
  /\ dbStart' = db
  /\ prevCounts' = IF pc = "done" THEN Counts(db) ELSE NoCounts
  /\ UNCHANGED <<fixture, db, schema>>
  /\ UNCHANGED pageVars

Next ==
  \/ Start
  \/ \E ok \in BOOLEAN : ConnectSettle(ok)
  \/ \E t \in Tables, ok \in BOOLEAN : CreateExtensionSettle(t, ok)
  \/ \E t \in Tables, ok \in BOOLEAN : CreateTableSettle(t, ok)
  \/ \E i \in 1..MaxBatch, ok \in BOOLEAN : HashSettle(i, ok)
  \/ \E t \in Tables, i \in 1..MaxBatch, ok \in BOOLEAN :
       InsertSettle(t, i, ok)
  \/ \E ok \in BOOLEAN : EndSettle(ok)
  \/ NextRun

Spec == Init /\ [][Next]_vars

\* The steps of a run: every call that is pending settles in the end (the
\* database answers or the connection reports the loss, bcrypt calls back).
RunStep ==
  \/ Start
  \/ \E ok \in BOOLEAN : ConnectSettle(ok)
  \/ \E t \in Tables, ok \in BOOLEAN : CreateExtensionSettle(t, ok)
  \/ \E t \in Tables, ok \in BOOLEAN : CreateTableSettle(t, ok)
  \/ \E i \in 1..MaxBatch, ok \in BOOLEAN : HashSettle(i, ok)
  \/ \E t \in Tables, i \in 1..MaxBatch, ok \in BOOLEAN :
       InsertSettle(t, i, ok)
  \/ \E ok \in BOOLEAN : EndSettle(ok)

FairSpec == Init /\ [][Next]_vars /\ WF_vars(RunStep)

-----------------------------------------------------------------------------
\* The dashboard page, app/dashboard/(overview)/page.tsx: Page() is an async
\* server component. It is called for a request, awaits
\* fetchLatestInvoices() and then fetchCardData(), and returns the markup
\* with the three Suspense boundaries; a boundary shows its fallback until
\* the component inside it has its data.

\* A request of /dashboard arrives (the one before it is over): Page() is
\* called and awaits fetchLatestInvoices().
PageCalled ==
  /\ \/ pagePc \in {"idle", "error"}
     \/ pagePc = "returned" /\ \A b \in Boundaries : boundary[b] # "fallback"
  /\ requests < MaxRequests
  /\ requests' = requests + 1
  /\ pagePc' = "fetchLatestInvoices"
  /\ boundary' = [b \in Boundaries |-> "none"]
  /\ UNCHANGED seedVars

\* await fetchLatestInvoices() settles: Page() goes on to await
\* fetchCardData(), or rejects.
FetchLatestInvoicesSettle(ok) ==
  /\ pagePc = "fetchLatestInvoices"
  /\ pagePc' = IF ok THEN "fetchCardData" ELSE "error"
  /\ UNCHANGED <<requests, boundary>>
  /\ UNCHANGED seedVars

\* await fetchCardData() settles: Page() returns its markup, every
\* boundary showing its fallback while its component waits for its data, or
\* rejects.
FetchCardDataSettle(ok) ==
  /\ pagePc = "fetchCardData"
  /\ IF ok
       THEN /\ pagePc' = "returned"
            /\ boundary' = [b \in Boundaries |-> "fallback"]
       ELSE /\ pagePc' = "error"
            /\ UNCHANGED boundary
  /\ UNCHANGED requests
  /\ UNCHANGED seedVars

\* The component inside boundary b has its data, or its fetch was rejected:
\* the boundary shows the component's content, or the error.
SuspenseSettle(b, ok) ==
  /\ pagePc = "returned"
  /\ boundary[b] = "fallback"
  /\ boundary' = [boundary EXCEPT ![b] = IF ok THEN "content" ELSE "error"]
  /\ UNCHANGED <<requests, pagePc>>
  /\ UNCHANGED seedVars

PageNext ==
  \/ PageCalled
  \/ \E ok \in BOOLEAN : FetchLatestInvoicesSettle(ok)
  \/ \E ok \in BOOLEAN : FetchCardDataSettle(ok)
  \/ \E b \in Boundaries, ok \in BOOLEAN : SuspenseSettle(b, ok)

SpecPage == Init /\ [][PageNext]_vars

-----------------------------------------------------------------------------
\* Properties.

\* The order of the phases as the specification states it.
StatedOrder == <<"users", "customers", "invoices", "revenue">>
PhaseNo(t) == CHOOSE k \in 1..Len(StatedOrder) : StatedOrder[k] = t
Later(t) == {u \in Tables : PhaseNo(u) > PhaseNo(t)}
Earlier(t) == {u \in Tables : PhaseNo(u) < PhaseNo(t)}

Pending(t) == {i \in DOMAIN ops[t] : ops[t][i] \in {"hashing", "inflight"}}
InFlight(t) == {i \in DOMAIN ops[t] : ops[t][i] = "inflight"}

\* C1: a run that acquired a connection and has ended, as done or as
\* failed, has called client.end() exactly once.
C1_ReleasedExactlyOnce ==
  (pc \in {"done", "failed"} /\ conn # "none") => ends = 1

\* C2 (as stated): when a run ends done and the run before it ended done
\* too, each of the four tables holds as many rows as the run before left.
C2_SameCountsAllTables ==
  (pc = "done" /\ prevCounts # NoCounts) => Counts(db) = prevCounts

\* C2 (amended): when a run ends done and the run before it ended done
\* too, users, customers and revenue hold as many rows as the run before
\* left, and invoices holds one more row per invoice of the fixture; a
\* fixture of one revenue record leaves exactly one revenue row.
C2_SameCountsButInvoices ==
  /\ (pc = "done" /\ prevCounts # NoCounts) =>
       /\ \A t \in {"users", "customers", "revenue"} :
            Cardinality(db[t]) = prevCounts[t]
       /\ Cardinality(db["invoices"]) =
            prevCounts["invoices"] + Len(fixture["invoices"])
  /\ (pc = "done" /\ Len(fixture["revenue"]) = 1) =>
       Cardinality(db["revenue"]) = 1

C2_Witness ==
  /\ run = 2 /\ pc = "done" /\ prevCounts # NoCounts
  /\ Len(fixture["revenue"]) = 1
  /\ Cardinality(db["revenue"]) = 1
  /\ Cardinality(db["invoices"]) = 2

\* C3: a phase has started only if every phase before it in the order
\* Users, Customers, Invoices, Revenue has returned and has no hash or
\* statement pending.
C3_PhasesInOrder ==
  \A t \in Tables :
    phaseState[t] # "notStarted" =>
      \A u \in Earlier(t) : phaseState[u] = "returned" /\ Pending(u) = {}

C3_Witness ==
  /\ phaseState["revenue"] = "batch"
  /\ InFlight("revenue") # {}
  /\ Len(fixture["users"]) >= 2

\* C4: a step that leaves a phase failed leaves main failed, the error
\* stream holding the phase's message and then the process's message, and
\* every later phase not started with no statement issued; and while the
\* run lasts a failed phase stays failed and nothing more is logged.
C4_FailureStopsTheRun ==
  [][\A t \in Tables :
       /\ phaseState'[t] = "thrown" =>
            /\ pc' = "failed"
            /\ errlog' = <<"Error seeding " \o t \o ":",
                 "An error occurred while attempting to seed the database:">>
            /\ \A u \in Later(t) :
                 phaseState'[u] = "notStarted" /\ ops'[u] = <<>>
       /\ (phaseState[t] = "thrown" /\ run' = run) =>
            /\ phaseState'[t] = "thrown"
            /\ errlog' = errlog]_vars

C4_Witness ==
  /\ phaseState["customers"] = "thrown"
  /\ \E i \in DOMAIN ops["customers"] : ops["customers"][i] = "inserted"
  /\ Pending("customers") = {}

\* C5 (as stated): a phase that has returned or thrown has no insert in
\* flight.
C5_NoInsertInFlightAfterOutcome ==
  \A t \in Tables :
    phaseState[t] \in {"returned", "thrown"} => InFlight(t) = {}

\* C5 (amended): a phase that has returned has submitted an insert for
\* every record of its batch and none of them is in flight.
C5_NoInsertInFlightAfterReturn ==
  \A t \in Tables :
    phaseState[t] = "returned" =>
      /\ Len(ops[t]) = Len(fixture[t])
      /\ Pending(t) = {}

C5_Witness ==
  /\ phaseState["users"] = "returned"
  /\ Len(ops["users"]) >= 2
  /\ phaseState["customers"] = "ext"

\* The rows of table t after the inserts of records 1..k have been applied
\* one after the other, in the order of the fixture, to rows.
RECURSIVE AppliedInFixtureOrder(_, _, _)
AppliedInFixtureOrder(t, k, rows) ==
  IF k = 0 THEN rows
  ELSE InsertRows(t, RowOf(t, k), AppliedInFixtureOrder(t, k - 1, rows))

\* Every insert of the batch of t was answered by the database.
BatchAnswered(t) ==
  /\ ops[t] # <<>>
  /\ \A i \in DOMAIN ops[t] :
       ops[t][i] \in {"inserted", "skipped", "unique_violation"}

\* The key columns the tables declare (PRIMARY KEY, UNIQUE).
DeclaredKeys(t) ==
  CASE t = "users" -> {"id", "email"}
    [] t = "customers" -> {"id"}
    [] t = "invoices" -> {"id"}
    [] t = "revenue" -> {"month"}

\* The declared key columns whose value the INSERT takes from the fixture
\* record (the id of an invoice is generated).
FixtureKeys(t) == IF t = "invoices" THEN {} ELSE DeclaredKeys(t)

\* No two records of the fixture batch of t agree on a key.
DistinctKeys(t) ==
  \A i, j \in DOMAIN fixture[t] : \A c \in FixtureKeys(t) :
    i # j => fixture[t][i][c] # fixture[t][j][c]

\* C6 (as stated): once every insert of a batch has been answered, the
\* table holds the rows that applying the batch in fixture order to the
\* table as it was when the run started gives, whatever the order in which
\* the inserts were applied.
C6_OrderIndependent ==
  \A t \in Tables :
    BatchAnswered(t) =>
      db[t] = AppliedInFixtureOrder(t, Len(fixture[t]), dbStart[t])

\* C6 (amended): the same, for a batch whose records have pairwise
\* distinct keys.
C6_OrderIndependentDistinctKeys ==
  \A t \in Tables :
    (BatchAnswered(t) /\ DistinctKeys(t)) =>
      db[t] = AppliedInFixtureOrder(t, Len(fixture[t]), dbStart[t])

C6_Witness ==
  /\ BatchAnswered("revenue") /\ DistinctKeys("revenue")
  /\ Len(fixture["revenue"]) >= 2
  /\ Cardinality(db["revenue"]) >= 2
  /\ BatchAnswered("users") /\ Len(fixture["users"]) >= 2

\* A row of rows has the value of row in column c.
Collides(c, row, rows) == \E x \in rows : x[c] = row[c]

\* The insert of record i of table t is answered by the database in this
\* step.
Answered(t, i) ==
  /\ i \in DOMAIN ops[t] /\ ops[t][i] = "inflight"
  /\ i \in DOMAIN ops'[t] /\ ops'[t][i] \notin {"inflight", "conn_error"}

\* C7 (as stated): an insert that the database answers and whose row
\* collides with a row of the table on a declared key is skipped: the
\* table is unchanged, the insert fulfils, the phase does not fail.
C7_AnyKeyCollisionSkipped ==
  [][\A t \in Tables : \A i \in DOMAIN ops[t] :
       (/\ Answered(t, i)
        /\ \E c \in DeclaredKeys(t) :
             Collides(c, RowOf(t, i), db[t])) =>
         /\ ops'[t][i] = "skipped"
         /\ db' = db
         /\ phaseState[t] = "batch" => phaseState'[t] # "thrown"]_vars

\* C7 (amended): such an insert is skipped when its row collides on the
\* column of its ON CONFLICT clause (users.id, customers.id, invoices.id,
\* revenue.month); when its row collides on users.email only, the insert
\* is rejected, the table is unchanged and the users phase has failed.
C7_ConflictTargetCollisionSkipped ==
  [][\A t \in Tables : \A i \in DOMAIN ops[t] :
       Answered(t, i) =>
         /\ Collides(IF t = "revenue" THEN "month" ELSE "id",
                     RowOf(t, i), db[t]) =>
              /\ ops'[t][i] = "skipped"
              /\ db' = db
              /\ phaseState[t] = "batch" => phaseState'[t] # "thrown"
         /\ (/\ t = "users"
             /\ ~Collides("id", RowOf(t, i), db[t])
             /\ Collides("email", RowOf(t, i), db[t])) =>
              /\ ops'[t][i] = "unique_violation"
              /\ db' = db
              /\ phaseState'[t] = "thrown"]_vars

C7_Witness ==
  /\ run = 1
  /\ \E i \in DOMAIN ops["users"] : ops["users"][i] = "skipped"
  /\ phaseState["users"] = "returned"

\* C8: no two rows of users, of customers or of invoices share an id and
\* no two rows of revenue share a month.
C8_KeysUnique ==
  /\ \A t \in {"users", "customers", "invoices"} :
       \A x, y \in db[t] : x.id = y.id => x = y
  /\ \A x, y \in db["revenue"] : x.month = y.month => x = y

C8_Witness ==
  /\ run = 2
  /\ \E i \in DOMAIN ops["customers"] : ops["customers"][i] = "skipped"
  /\ Cardinality(db["customers"]) = 1
  /\ Len(fixture["customers"]) = 2
  /\ Cardinality(db["invoices"]) >= 2

HashesAtCost10 ==
  [p \in Plaintexts |-> {BcryptHash(p, 10, s) : s \in Salts}]

\* C9: every row of users carries the id, name and email of a fixture
\* user and, as password, a bcrypt hash of cost 10 of that user's
\* plaintext, which is not the plaintext and which bcrypt.compare accepts;
\* when the users phase of the first run of a one-user fixture has
\* returned, users holds exactly one row.
C9_PasswordsHashed ==
  /\ \A row \in db["users"] :
       \E i \in DOMAIN fixture["users"] :
         LET u == fixture["users"][i] IN
         /\ row.id = u.id /\ row.name = u.name /\ row.email = u.email
         /\ row.password # u.password
         /\ row.password \in HashesAtCost10[u.password]
         /\ BcryptCompare(u.password, row.password)
  /\ (run = 1 /\ Len(fixture["users"]) = 1
        /\ phaseState["users"] = "returned") =>
       /\ Cardinality(db["users"]) = 1
       /\ \A row \in db["users"] : row.password # "plain"

C9_Witness ==
  /\ run = 1 /\ Len(fixture["users"]) = 1
  /\ phaseState["users"] = "returned"
  /\ \E row \in db["users"] :
       row.id = "u1" /\ BcryptCompare("plain", row.password)

\* C10: a phase has returned exactly when every record of its batch is
\* resolved as inserted or skipped; a phase whose batch holds a rejected
\* hash or insert has failed; and a phase has failed only if its DDL
\* failed (no insert was submitted) or its batch holds a rejection.
C10_SuccessIffAllResolved ==
  \A t \in Tables :
    /\ phaseState[t] = "returned" <=>
         /\ Len(ops[t]) = Len(fixture[t])
         /\ \A i \in DOMAIN ops[t] : ops[t][i] \in {"inserted", "skipped"}
    /\ (\E i \in DOMAIN ops[t] :
          ops[t][i] \in {"hash_error", "unique_violation", "conn_error"}) =>
         phaseState[t] = "thrown"
    /\ phaseState[t] = "thrown" =>
         \/ ops[t] = <<>>
         \/ \E i \in DOMAIN ops[t] :
              ops[t][i] \in {"hash_error", "unique_violation", "conn_error"}

C10_Witness ==
  /\ phaseState["invoices"] = "thrown"
  /\ \E i \in DOMAIN ops["invoices"] : ops["invoices"][i] = "conn_error"
  /\ \E i \in DOMAIN ops["invoices"] : ops["invoices"][i] = "inserted"

\* C11: provided every pending call settles, a run that has begun ends:
\* main reaches done (the four phases returned and the connection was
\* ended) or failed (the error was logged); it does not stay connecting,
\* seeding or closing for ever.
C11_EveryRunEnds ==
  (pc \in {"idle", "connecting", "seeding", "closing"})
    ~> (pc \in {"done", "failed"})

C11_Witness ==
  /\ pc = "failed"
  /\ phaseState["invoices"] = "thrown"
  /\ errlog # <<>>
  /\ Pending("invoices") # {}

\* The DDL statement that phase t is waiting for is answered in this step,
\* and the object it creates.
DdlSettles(t) ==
  /\ phaseState[t] \in {"ext", "table"}
  /\ phaseState'[t] # phaseState[t]
  /\ run' = run
DdlObject(t) == IF phaseState[t] = "ext" THEN "uuid-ossp" ELSE t

\* C12: a CREATE EXTENSION IF NOT EXISTS or CREATE TABLE IF NOT EXISTS
\* that is answered leaves every row of every table as it was; it is
\* rejected only when the connection is lost, not because its object
\* exists; when its object exists already it leaves the schema as it was,
\* and when it is not rejected its object exists afterwards.
C12_SchemaInitIdempotent ==
  [][\A t \in Tables :
       DdlSettles(t) =>
         /\ db' = db
         /\ ddlError'[t] \in {"", "conn_error"}
         /\ DdlObject(t) \in schema =>
              (ddlError'[t] = "" => phaseState'[t] # "thrown") /\ schema' = schema
         /\ ddlError'[t] = "" => DdlObject(t) \in schema']_vars

C12_Witness ==
  /\ run = 2
  /\ dbStart["customers"] # {}
  /\ phaseState["customers"] = "batch"
  /\ "customers" \in schema
  /\ db = dbStart

\* The ids of the rows of customers.
CustomerIds == {c.id : c \in db["customers"]}

\* C13: every insert of an invoice that the database has answered was
\* applied, and its row, with the customer_id of its fixture record, is in
\* invoices, whatever rows customers holds, a customer with that id or
\* none; and the invoices phase throws only when the connection is lost.
C13_InvoiceInsertedWhateverCustomers ==
  /\ phaseState["invoices"] = "thrown" =>
       \/ ddlError["invoices"] = "conn_error"
       \/ \E i \in DOMAIN ops["invoices"] : ops["invoices"][i] = "conn_error"
  /\ \A i \in DOMAIN ops["invoices"] :
    ops["invoices"][i] \notin {"inflight", "conn_error"} =>
      /\ ops["invoices"][i] = "inserted"
      /\ \E x \in db["invoices"] :
           /\ x.id = UuidGenerateV4(i)
           /\ x.customer_id = fixture["invoices"][i].customer_id
           /\ x.amount = fixture["invoices"][i].amount
           /\ x.status = fixture["invoices"][i].status
           /\ x.date = fixture["invoices"][i].date

C13_Witness ==
  /\ phaseState["invoices"] = "returned"
  /\ db["customers"] # {}
  /\ \E i \in DOMAIN ops["invoices"] :
       /\ ops["invoices"][i] = "inserted"
       /\ fixture["invoices"][i].customer_id \notin CustomerIds
       /\ \E x \in db["invoices"] :
            x.customer_id = fixture["invoices"][i].customer_id

\* C14: no step of any run, successful or failed, removes or changes a row
\* of any of the four tables: every row a table holds before a step it
\* holds after it.
C14_CreationOnly ==
  [][\A t \in Tables : db[t] \subseteq db'[t]]_vars

C14_Witness ==
  /\ run = 2
  /\ \A t \in Tables : dbStart[t] # {}
  /\ \E t \in Tables : \E i \in DOMAIN ops[t] : ops[t][i] = "skipped"
  /\ db["invoices"] # dbStart["invoices"]
  /\ pc = "failed"

\* A step of the current run in which the callback of user record i moves.
UserOpMoves(i) ==
  /\ run' = run
  /\ i \in DOMAIN ops["users"]
  /\ ops'["users"][i] # ops["users"][i]

\* C15: the insert of a user record is sent only in the step in which the
\* hash of that record is computed; a record whose hash failed stays
\* failed for the rest of the run, neither hashed again nor inserted; and
\* the failure of one record's hash moves no other record of the batch,
\* whose hash can still settle and send its insert.
C15_InsertOnlyAfterHash ==
  /\ [][\A i \in 1..MaxBatch :
          UserOpMoves(i) =>
            /\ ops'["users"][i] = "inflight" =>
                 /\ ops["users"][i] = "hashing"
                 /\ hashed[i] = NoHash
                 /\ hashed'[i] \in HashesAtCost10[fixture["users"][i].password]
            /\ ops["users"][i] # "hash_error"
            /\ ops'["users"][i] = "hash_error" =>
                 /\ db' = db
                 /\ hashed' = hashed
                 /\ \A j \in DOMAIN ops["users"] \ {i} :
                      ops'["users"][j] = ops["users"][j]]_vars
  /\ [](\A j \in DOMAIN ops["users"] :
          ops["users"][j] = "hashing" => ENABLED HashSettle(j, TRUE))

C15_Witness ==
  /\ DOMAIN ops["users"] = 1..2
  /\ ops["users"][1] = "hash_error"
  /\ hashed[1] = NoHash
  /\ ops["users"][2] = "inserted"
  /\ phaseState["users"] = "thrown"
  /\ \E x \in db["users"] : x.id = fixture["users"][2].id
  /\ ~(\E x \in db["users"] : x.id = fixture["users"][1].id)

\* The run before the current one ended failed.
PreviousRunFailed == run > 1 /\ prevCounts = NoCounts

\* A call of the current run was rejected for a reason outside the script
\* and its data: the connect, a statement or client.end() on a lost
\* connection, or a hash computation.
Fault ==
  \/ pc = "failed" /\ conn = "none"
  \/ \E t \in Tables : ddlError[t] = "conn_error"
  \/ \E t \in Tables : \E i \in DOMAIN ops[t] :
       ops[t][i] \in {"conn_error", "hash_error"}
  \/ pc = "failed" /\ \A t \in Tables : phaseState[t] = "returned"

\* The columns of a users row other than the password hash.
UserIdentity(x) == [id |-> x.id, name |-> x.name, email |-> x.email]

\* users holds one row per fixture user, with a bcrypt hash of cost 10 of
\* that user's plaintext: the rows of a single fault-free run on an empty
\* database, up to the salt that bcrypt draws.
UsersAsSeededOnce ==
  /\ Cardinality(db["users"]) = Len(fixture["users"])
  /\ \A i \in DOMAIN fixture["users"] : \E x \in db["users"] :
       /\ UserIdentity(x) = UserIdentity(fixture["users"][i])
       /\ x.password \in HashesAtCost10[fixture["users"][i].password]

\* C16: in a run that follows a failed run, the fixture keys being
\* pairwise distinct, nothing but a fault fails the run (no insert is
\* rejected for a row that an earlier run left), and once the four phases
\* have returned users, customers and revenue hold exactly the rows of a
\* single fault-free run on an empty database.
C16_RerunAfterFailureConverges ==
  (PreviousRunFailed /\ \A t \in Tables : DistinctKeys(t)) =>
    /\ pc = "failed" => Fault
    /\ \A t \in Tables : \A i \in DOMAIN ops[t] :
         ops[t][i] # "unique_violation"
    /\ (\A t \in Tables : phaseState[t] = "returned") =>
         /\ UsersAsSeededOnce
         /\ db["customers"] =
              {fixture["customers"][i] : i \in DOMAIN fixture["customers"]}
         /\ db["revenue"] =
              {fixture["revenue"][i] : i \in DOMAIN fixture["revenue"]}

C16_Witness ==
  /\ PreviousRunFailed
  /\ \A t \in Tables : DistinctKeys(t)
  /\ Len(fixture["users"]) = 2
  /\ Cardinality(dbStart["users"]) = 1
  /\ dbStart["customers"] = {}
  /\ pc = "done"
  /\ ~Fault
  /\ \E i \in DOMAIN ops["users"] : ops["users"][i] = "skipped"
  /\ \E i \in DOMAIN ops["users"] : ops["users"][i] = "inserted"

\* A statement is sent in this step: the DDL a phase moves to, or the
\* INSERT of a record.
StatementIssued ==
  \/ \E t \in Tables :
       /\ phaseState'[t] \in {"ext", "table"}
       /\ phaseState'[t] # phaseState[t]
  \/ \E t \in Tables : \E i \in DOMAIN ops'[t] :
       /\ ops'[t][i] = "inflight"
       /\ (i \in DOMAIN ops[t] => ops[t][i] # "inflight")

\* A statement has been sent and not answered.
StatementOutstanding ==
  \E t \in Tables : phaseState[t] \in {"ext", "table"} \/ InFlight(t) # {}

\* C17: a statement is sent only while the connection of this run is open
\* and client.end() has not been called; rows and schema change only on
\* the open connection; once client.end() has been called nothing is
\* outstanding and nothing is left to send; and a run whose connect failed
\* starts no phase, sends nothing and leaves the database as it found it.
C17_StatementsOnlyOnOpenConnection ==
  /\ [][/\ StatementIssued => (conn' = "open" /\ ends' = 0)
        /\ (db' # db \/ schema' # schema) => (conn = "open" /\ ends = 0)]_vars
  /\ [](StatementOutstanding => conn = "open")
  /\ []((ends > 0 \/ conn = "closed") =>
          /\ ~StatementOutstanding
          /\ \A t \in Tables : Pending(t) = {} /\ phaseState[t] = "returned")
  /\ []((conn = "none") =>
          /\ \A t \in Tables : phaseState[t] = "notStarted" /\ ops[t] = <<>>
          /\ db = dbStart)

C17_Witness ==
  /\ run = 2
  /\ prevCounts # NoCounts
  /\ pc = "failed"
  /\ conn = "none"
  /\ errlog = <<ProcessError>>
  /\ db["revenue"] # {}

\* C18 (as stated): the markup of the page, with its three placeholders, is
\* there for a request without waiting for any data fetch: a request that
\* is being served has its markup, each boundary showing its fallback, its
\* content or its error, and no fetch of the page stands before it; and
\* serving the page changes no row.
C18_MarkupWithoutWaiting ==
  /\ pagePc # "idle" =>
       /\ pagePc = "returned"
       /\ \A b \in Boundaries : boundary[b] # "none"
  /\ db = dbStart

====
